---- MODULE Spec2Model ----
(***************************************************************************)
(* Model of rx3lixir/ishe3ikin: the scraping TaskRunner                    *)
(* (internal/scraper/scraper.go, TaskRunner.Run) and the WorkerPool        *)
(* (internal/lib/work/pool.go).                                            *)
(*                                                                         *)
(* Spec      TaskRunner.Run with its task goroutines, the goroutine that   *)
(*           closes the channels, and the context deadline.                *)
(* FairSpec  Spec plus the scheduling the Go runtime gives: a runnable     *)
(*           goroutine is eventually run.                                  *)
(* PoolSpec  WorkerPool driven by a controller (NewWorkerPool, Run,        *)
(*           Shutdown), a producer (AddTask) and a reader of Results().    *)
(***************************************************************************)
EXTENDS Integers, Sequences, FiniteSets, TLC

\* ---------------------------------------------------------------- bounds
MaxScrapers == 3
MaxWorkers == 2        \* largest workerCount passed to NewWorkerPool
MaxQueue == 2          \* largest queueSize passed to NewWorkerPool
MaxPoolTasks == 2      \* number of AddTask calls the producer makes
MaxRunCalls == 2       \* number of WorkerPool.Run calls
MaxLiveWorkers == 4    \* largest number of worker goroutines ever started
MaxShutdownCalls == 2  \* number of WorkerPool.Shutdown calls
MaxScrapeCalls == 1    \* number of RodScraper.Scrape calls followed step by step
MaxSelectors == 2      \* largest number of entries of Tasks.Selectors
MaxRecords == 2        \* largest len(data) passed to CSVExporter.Export
MaxKeys == 2           \* largest number of keys of a record

\* ------------------------------------------------------------- variables
VARIABLES
    \* TaskRunner.Run
    nScrapers,    \* len(t.Scrapers)
    launched,     \* number of task goroutines started by the for loop
    tpc,          \* position of each task goroutine
    scrapeOK,     \* per task: "ok" / "fail" once Scrape returned, "none" before
    wgCount,      \* sync.WaitGroup counter
    cpc,          \* position of the goroutine that closes the channels
    resClosed,    \* close(resultsChan) executed
    errClosed,    \* close(errorsChan) executed
    resNil,       \* local resultsChan set to nil by the loop
    errNil,       \* local errorsChan set to nil by the loop
    results,      \* var results []map[string]string
    errorList,    \* var errorList []error
    rpc,          \* position of Run itself
    retVia,       \* which return statement Run left through
    ctxDone,      \* ctx.Done() is closed (deadline fired)
    dlReturned,   \* history: the tasks whose Scrape had returned when the deadline fired
    \* WorkerPool
    workerCount,  \* wp.workerCount
    queueSize,    \* capacity of wp.taskQueue and of wp.resultChan
    newResult,    \* what NewWorkerPool produced
    taskQueue,    \* buffer of wp.taskQueue
    tqClosed,     \* close(wp.taskQueue) executed
    resultChan,   \* buffer of wp.resultChan
    rcClosed,     \* close(wp.resultChan) executed
    workers,      \* the worker goroutines launched so far, in launch order
    poolWg,       \* wp.wg counter
    ctl,          \* position of the goroutine calling NewWorkerPool/Run/Shutdown
    runCalls,     \* calls of Run so far
    sdCalls,      \* calls of Shutdown so far
    sdReturned,   \* calls of Shutdown that have returned
    ppc,          \* position of the goroutine calling AddTask
    addTask,      \* the task of the AddTask call in progress (0: none)
    added,        \* AddTask calls made so far
    addAfterSd,   \* the latest AddTask call began after a Shutdown returned
    addResult,    \* how the latest AddTask call ended
    execCount,    \* per task: invocations of Execute
    execErr,      \* tasks whose Execute returned an error
    printed,      \* lines written to stdout by fmt.Printf on an error
    consumed,     \* values received from Results() by the reader
    panicked,     \* "none", or the runtime panic that ended the program
    runsAtSd,     \* history: calls of Run made before the first Shutdown call (-1: none yet)
    \* RodScraper.Scrape
    selectors,    \* per scraper: r.Tasks.Selectors, key -> "empty" / "css"
    scr,          \* per scraper: the state of its Scrape call
    \* CSVExporter.Export
    data,         \* the argument: []map[string]string
    epc,          \* position of the Export call
    csvHeader,    \* the header record written to the file (keys)
    csvRows       \* the data records written to the file

rvars == <<nScrapers, launched, tpc, scrapeOK, wgCount, cpc, resClosed,
           errClosed, resNil, errNil, results, errorList, rpc, retVia,
           ctxDone, dlReturned>>

pvars == <<workerCount, queueSize, newResult, taskQueue, tqClosed,
           resultChan, rcClosed, workers, poolWg, ctl, runCalls, sdCalls,
           sdReturned, ppc, addTask, added, addAfterSd, addResult, execCount,
           execErr, printed, consumed, panicked, runsAtSd>>

svars == <<selectors, scr>>

evars == <<data, epc, csvHeader, csvRows>>

vars == <<rvars, pvars, svars, evars>>

Tasks == 1..MaxScrapers

\* The entries of the error slice: a task's own error, or the synthetic
\* errors.New("scraping tasks timed out").
TaskErr(i) == [kind |-> "task", task |-> i]
TimeoutErr == [kind |-> "timeout", task |-> 0]

\* ------------------------------------------------------- TaskRunner.Run
RunInit ==
    /\ nScrapers \in 0..MaxScrapers
    /\ launched = 0
    /\ tpc = [i \in Tasks |-> "none"]
    /\ scrapeOK = [i \in Tasks |-> "none"]
    /\ wgCount = 0
    /\ cpc = "none"
    /\ resClosed = FALSE
    /\ errClosed = FALSE
    /\ resNil = FALSE
    /\ errNil = FALSE
    /\ results = <<>>
    /\ errorList = <<>>
    /\ rpc = "launch"
    /\ retVia = "none"
    /\ ctxDone = FALSE
    /\ dlReturned = {}

\* for _, scraper := range t.Scrapers { wg.Add(1); go func(s Scraper) {...} }
LaunchTask ==
    /\ rpc = "launch"
    /\ launched < nScrapers
    /\ launched' = launched + 1
    /\ wgCount' = wgCount + 1
    /\ tpc' = [tpc EXCEPT ![launched + 1] = "scrape"]
    /\ UNCHANGED <<nScrapers, scrapeOK, cpc, resClosed, errClosed, resNil,
                   errNil, results, errorList, rpc, retVia, ctxDone>>
    /\ UNCHANGED pvars
    /\ UNCHANGED <<dlReturned, svars, evars>>

\* go func() { wg.Wait(); close(resultsChan); close(errorsChan) }()
LaunchCloser ==
    /\ rpc = "launch"
    /\ launched = nScrapers
    /\ cpc' = "wait"
    /\ rpc' = "select"
    /\ UNCHANGED <<nScrapers, launched, tpc, scrapeOK, wgCount, resClosed,
                   errClosed, resNil, errNil, results, errorList, retVia,
                   ctxDone>>
    /\ UNCHANGED pvars
    /\ UNCHANGED <<dlReturned, svars, evars>>

\* result, err := s.Scrape(ctx): the task goroutine picks the channel it
\* will send on.
SendPos_Swapped(ok) == IF ok THEN "sendErr" ELSE "sendRes"
SendPos(ok) == IF ok THEN "sendRes" ELSE "sendErr"

ScrapeReturn(i, ok) ==
    /\ tpc[i] = "scrape"
    /\ tpc' = [tpc EXCEPT ![i] = SendPos(ok)]
    /\ scrapeOK' = [scrapeOK EXCEPT ![i] = IF ok THEN "ok" ELSE "fail"]
    /\ UNCHANGED <<nScrapers, launched, wgCount, cpc, resClosed, errClosed,
                   resNil, errNil, results, errorList, rpc, retVia, ctxDone>>
    /\ UNCHANGED pvars
    /\ UNCHANGED <<dlReturned, svars, evars>>

\* defer wg.Done(), run when the goroutine's send has completed
TaskDone(i) ==
    /\ tpc[i] = "sent"
    /\ tpc' = [tpc EXCEPT ![i] = "exited"]
    /\ wgCount' = wgCount - 1
    /\ UNCHANGED <<nScrapers, launched, scrapeOK, cpc, resClosed, errClosed,
                   resNil, errNil, results, errorList, rpc, retVia, ctxDone>>
    /\ UNCHANGED pvars
    /\ UNCHANGED <<dlReturned, svars, evars>>

\* wg.Wait() returns when the counter is zero
WgWaitReady_NoWait == TRUE
WgWaitReady_OneLeft == wgCount <= 1
WgWaitReady == wgCount = 0

CloserWait ==
    /\ cpc = "wait"
    /\ WgWaitReady
    /\ cpc' = "closeRes"
    /\ UNCHANGED <<nScrapers, launched, tpc, scrapeOK, wgCount, resClosed,
                   errClosed, resNil, errNil, results, errorList, rpc, retVia,
                   ctxDone>>
    /\ UNCHANGED pvars
    /\ UNCHANGED <<dlReturned, svars, evars>>

CloserCloseRes ==
    /\ cpc = "closeRes"
    /\ resClosed' = TRUE
    /\ cpc' = "closeErr"
    /\ UNCHANGED <<nScrapers, launched, tpc, scrapeOK, wgCount, errClosed,
                   resNil, errNil, results, errorList, rpc, retVia, ctxDone>>
    /\ UNCHANGED pvars
    /\ UNCHANGED <<dlReturned, svars, evars>>

CloserCloseErr ==
    /\ cpc = "closeErr"
    /\ errClosed' = TRUE
    /\ cpc' = "exited"
    /\ UNCHANGED <<nScrapers, launched, tpc, scrapeOK, wgCount, resClosed,
                   resNil, errNil, results, errorList, rpc, retVia, ctxDone>>
    /\ UNCHANGED pvars
    /\ UNCHANGED <<dlReturned, svars, evars>>

\* The deadline of context.WithTimeout elapses: ctx.Done() is closed.
Deadline ==
    /\ ~ctxDone
    /\ ctxDone' = TRUE
    /\ UNCHANGED <<nScrapers, launched, tpc, scrapeOK, wgCount, cpc,
                   resClosed, errClosed, resNil, errNil, results, errorList,
                   rpc, retVia>>
    /\ UNCHANGED pvars
    /\ dlReturned' = {i \in Tasks : tpc[i] \notin {"none", "scrape"}}
    /\ UNCHANGED <<svars, evars>>

\* if resultsChan == nil && errorsChan == nil { break }
LoopExit_Either(rn, en) == rn \/ en
LoopExit(rn, en) == rn /\ en

\* The tail of one loop iteration that did not return from inside the
\* select: the break test, then `return results, errorList`.
AfterSelect(rn, en) ==
    IF LoopExit(rn, en)
    THEN /\ rpc' = "returned"
         /\ retVia' = "closed"
    ELSE /\ rpc' = "select"
         /\ retVia' = retVia

\* case res, ok := <-resultsChan, ok: rendezvous with a sending goroutine
RecvResult(i) ==
    /\ rpc = "select"
    /\ ~resNil
    /\ tpc[i] = "sendRes"
    /\ ~resClosed
    /\ results' = Append(results, i)
    /\ tpc' = [tpc EXCEPT ![i] = "sent"]
    /\ AfterSelect(resNil, errNil)
    /\ UNCHANGED <<nScrapers, launched, scrapeOK, wgCount, cpc, resClosed,
                   errClosed, resNil, errNil, errorList, ctxDone>>
    /\ UNCHANGED pvars
    /\ UNCHANGED <<dlReturned, svars, evars>>

\* case res, ok := <-resultsChan, !ok: resultsChan = nil.  The receive
\* yields !ok only on a closed channel (no sender is left by then).
ResultsRecvNotOk_Anytime == TRUE
ResultsRecvNotOk == resClosed

RecvResultClosed ==
    /\ rpc = "select"
    /\ ~resNil
    /\ ResultsRecvNotOk
    /\ resNil' = TRUE
    /\ AfterSelect(TRUE, errNil)
    /\ UNCHANGED <<nScrapers, launched, tpc, scrapeOK, wgCount, cpc,
                   resClosed, errClosed, errNil, results, errorList, ctxDone>>
    /\ UNCHANGED pvars
    /\ UNCHANGED <<dlReturned, svars, evars>>

\* case err, ok := <-errorsChan, ok
RecvError(i) ==
    /\ rpc = "select"
    /\ ~errNil
    /\ tpc[i] = "sendErr"
    /\ ~errClosed
    /\ errorList' = Append(errorList, TaskErr(i))
    /\ tpc' = [tpc EXCEPT ![i] = "sent"]
    /\ AfterSelect(resNil, errNil)
    /\ UNCHANGED <<nScrapers, launched, scrapeOK, wgCount, cpc, resClosed,
                   errClosed, resNil, errNil, results, ctxDone>>
    /\ UNCHANGED pvars
    /\ UNCHANGED <<dlReturned, svars, evars>>

\* case err, ok := <-errorsChan, !ok: errorsChan = nil
RecvErrorClosed ==
    /\ rpc = "select"
    /\ ~errNil
    /\ errClosed
    /\ errNil' = TRUE
    /\ AfterSelect(resNil, TRUE)
    /\ UNCHANGED <<nScrapers, launched, tpc, scrapeOK, wgCount, cpc,
                   resClosed, errClosed, resNil, results, errorList, ctxDone>>
    /\ UNCHANGED pvars
    /\ UNCHANGED <<dlReturned, svars, evars>>

\* case <-ctx.Done(): append the synthetic error and return
TimeoutErrs_None == <<>>
TimeoutErrs == <<TimeoutErr>>

DeadlineBranch ==
    /\ rpc = "select"
    /\ ctxDone
    /\ errorList' = errorList \o TimeoutErrs
    /\ rpc' = "returned"
    /\ retVia' = "deadline"
    /\ UNCHANGED <<nScrapers, launched, tpc, scrapeOK, wgCount, cpc,
                   resClosed, errClosed, resNil, errNil, results, ctxDone>>
    /\ UNCHANGED pvars
    /\ UNCHANGED <<dlReturned, svars, evars>>

\* One iteration of Run's for/select loop (select picks any ready case).
RunStep ==
    \/ \E i \in Tasks : RecvResult(i)
    \/ RecvResultClosed
    \/ \E i \in Tasks : RecvError(i)
    \/ RecvErrorClosed
    \/ DeadlineBranch


\* ------------------------------------------------------------ WorkerPool
PoolTasks == 1..MaxPoolTasks

Max(a, b) == IF a >= b THEN a ELSE b

\* The pool before NewWorkerPool has been called.
PoolInit ==
    /\ workerCount = 0
    /\ queueSize = 0
    /\ newResult = "none"
    /\ taskQueue = <<>>
    /\ tqClosed = FALSE
    /\ resultChan = <<>>
    /\ rcClosed = FALSE
    /\ workers = <<>>
    /\ poolWg = 0
    /\ ctl = "new"
    /\ runCalls = 0
    /\ sdCalls = 0
    /\ sdReturned = 0
    /\ ppc = "idle"
    /\ addTask = 0
    /\ added = 0
    /\ addAfterSd = FALSE
    /\ addResult = "none"
    /\ execCount = [t \in PoolTasks |-> 0]
    /\ execErr = {}
    /\ printed = <<>>
    /\ consumed = <<>>
    /\ panicked = "none"
    /\ runsAtSd = -1

Alive == panicked = "none"

\* func NewWorkerPool(workerCount int, queueSize int) *WorkerPool: no
\* validation; make(chan T, n) panics for n < 0 and is unbuffered for n = 0.
NewWorkerPool(wc, qs) ==
    /\ Alive
    /\ ctl = "new"
    /\ workerCount' = wc
    /\ queueSize' = qs
    /\ IF qs < 0
       THEN /\ newResult' = "panic"
            /\ panicked' = "makechan: size out of range"
       ELSE /\ newResult' = "pool"
            /\ panicked' = panicked
    /\ ctl' = "idle"
    /\ UNCHANGED <<taskQueue, tqClosed, resultChan, rcClosed, workers, poolWg,
                   runCalls, sdCalls, sdReturned, ppc, addTask, added,
                   addAfterSd, addResult, execCount, execErr, printed,
                   consumed>>
    /\ UNCHANGED rvars
    /\ UNCHANGED <<runsAtSd, svars, evars>>

\* The workers one call of Run starts:
\* for i := 0; i < wp.workerCount; i++ { wp.wg.Add(1); go wp.worker(i) }
NewWorkers ==
    [i \in 1..Max(workerCount, 0) |-> [id |-> i - 1, pc |-> "recv", task |-> 0]]

PoolRun ==
    /\ Alive
    /\ ctl = "idle"
    /\ runCalls < MaxRunCalls
    /\ Len(workers) + Len(NewWorkers) <= MaxLiveWorkers
    /\ workers' = workers \o NewWorkers
    /\ poolWg' = poolWg + Len(NewWorkers)
    /\ runCalls' = runCalls + 1
    /\ UNCHANGED <<workerCount, queueSize, newResult, taskQueue, tqClosed,
                   resultChan, rcClosed, ctl, sdCalls, sdReturned, ppc,
                   addTask, added, addAfterSd, addResult, execCount, execErr,
                   printed, consumed, panicked>>
    /\ UNCHANGED rvars
    /\ UNCHANGED <<runsAtSd, svars, evars>>

\* func (wp *WorkerPool) AddTask(task Task) { wp.taskQueue <- task }
\* The call is entered ...
AddTaskCall ==
    /\ Alive
    /\ newResult = "pool"
    /\ ppc = "idle"
    /\ added < MaxPoolTasks
    /\ added' = added + 1
    /\ addTask' = added + 1
    /\ ppc' = "adding"
    /\ addAfterSd' = (sdReturned > 0)
    /\ addResult' = "pending"
    /\ UNCHANGED <<workerCount, queueSize, newResult, taskQueue, tqClosed,
                   resultChan, rcClosed, workers, poolWg, ctl, runCalls,
                   sdCalls, sdReturned, execCount, execErr, printed, consumed,
                   panicked>>
    /\ UNCHANGED rvars
    /\ UNCHANGED <<runsAtSd, svars, evars>>

\* ... and its send completes: it panics on a closed channel, else it puts
\* the task in the buffer when there is room (it stays blocked otherwise).
AddTaskSend ==
    /\ Alive
    /\ ppc = "adding"
    /\ IF tqClosed
       THEN /\ panicked' = "send on closed channel"
            /\ addResult' = "panic"
            /\ UNCHANGED <<taskQueue, ppc, addTask>>
       ELSE /\ Len(taskQueue) < queueSize
            /\ taskQueue' = Append(taskQueue, addTask)
            /\ ppc' = "idle"
            /\ addTask' = 0
            /\ addResult' = "enqueued"
            /\ panicked' = panicked
    /\ UNCHANGED <<workerCount, queueSize, newResult, tqClosed, resultChan,
                   rcClosed, workers, poolWg, ctl, runCalls, sdCalls,
                   sdReturned, added, addAfterSd, execCount, execErr, printed,
                   consumed>>
    /\ UNCHANGED rvars
    /\ UNCHANGED <<runsAtSd, svars, evars>>

\* func (wp *WorkerPool) Shutdown(): close(wp.taskQueue)
ShutdownCall ==
    /\ Alive
    /\ ctl = "idle"
    /\ sdCalls < MaxShutdownCalls
    /\ sdCalls' = sdCalls + 1
    /\ IF tqClosed
       THEN /\ panicked' = "close of closed channel"
            /\ UNCHANGED <<tqClosed, ctl>>
       ELSE /\ tqClosed' = TRUE
            /\ ctl' = "sdWait"
            /\ panicked' = panicked
    /\ UNCHANGED <<workerCount, queueSize, newResult, taskQueue, resultChan,
                   rcClosed, workers, poolWg, runCalls, sdReturned, ppc,
                   addTask, added, addAfterSd, addResult, execCount, execErr,
                   printed, consumed>>
    /\ UNCHANGED rvars
    /\ runsAtSd' = IF sdCalls = 0 THEN runCalls ELSE runsAtSd
    /\ UNCHANGED <<svars, evars>>

\* wp.wg.Wait() returns when every launched worker has run wg.Done
PoolWgWaitReady_NoWait == TRUE
PoolWgWaitReady_OneLeft == poolWg <= 1
PoolWgWaitReady == poolWg = 0

ShutdownWait ==
    /\ Alive
    /\ ctl = "sdWait"
    /\ PoolWgWaitReady
    /\ ctl' = "sdClose"
    /\ UNCHANGED <<workerCount, queueSize, newResult, taskQueue, tqClosed,
                   resultChan, rcClosed, workers, poolWg, runCalls, sdCalls,
                   sdReturned, ppc, addTask, added, addAfterSd, addResult,
                   execCount, execErr, printed, consumed, panicked>>
    /\ UNCHANGED rvars
    /\ UNCHANGED <<runsAtSd, svars, evars>>

\* close(wp.resultChan), and Shutdown returns
ShutdownClose ==
    /\ Alive
    /\ ctl = "sdClose"
    /\ IF rcClosed
       THEN /\ panicked' = "close of closed channel"
            /\ UNCHANGED <<rcClosed, ctl, sdReturned>>
       ELSE /\ rcClosed' = TRUE
            /\ ctl' = "idle"
            /\ sdReturned' = sdReturned + 1
            /\ panicked' = panicked
    /\ UNCHANGED <<workerCount, queueSize, newResult, taskQueue, tqClosed,
                   resultChan, workers, poolWg, runCalls, sdCalls, ppc,
                   addTask, added, addAfterSd, addResult, execCount, execErr,
                   printed, consumed>>
    /\ UNCHANGED rvars
    /\ UNCHANGED <<runsAtSd, svars, evars>>

\* for task := range wp.taskQueue: the next buffered task, or, with an
\* empty buffer, the task of a sender blocked in AddTask
WorkerRecv(w) ==
    /\ Alive
    /\ w \in 1..Len(workers)
    /\ workers[w].pc = "recv"
    /\ \/ /\ taskQueue # <<>>
          /\ workers' = [workers EXCEPT ![w].pc = "exec",
                                        ![w].task = Head(taskQueue)]
          /\ execCount' = [execCount EXCEPT ![Head(taskQueue)] = @ + 1]
          /\ taskQueue' = Tail(taskQueue)
          /\ UNCHANGED <<ppc, addTask, addResult>>
       \/ /\ taskQueue = <<>>
          /\ ~tqClosed
          /\ ppc = "adding"
          /\ workers' = [workers EXCEPT ![w].pc = "exec", ![w].task = addTask]
          /\ execCount' = [execCount EXCEPT ![addTask] = @ + 1]
          /\ ppc' = "idle"
          /\ addTask' = 0
          /\ addResult' = "enqueued"
          /\ UNCHANGED taskQueue
    /\ UNCHANGED <<workerCount, queueSize, newResult, tqClosed, resultChan,
                   rcClosed, poolWg, ctl, runCalls, sdCalls, sdReturned,
                   added, addAfterSd, execErr, printed, consumed, panicked>>
    /\ UNCHANGED rvars
    /\ UNCHANGED <<runsAtSd, svars, evars>>

\* `range wp.taskQueue` ends when the queue is closed and its buffer empty
QueueDrained_ClosedOnly == tqClosed
QueueDrained == taskQueue = <<>> /\ tqClosed

\* the range loop ends on a closed, drained queue: defer wp.wg.Done()
WorkerExit(w) ==
    /\ Alive
    /\ w \in 1..Len(workers)
    /\ workers[w].pc = "recv"
    /\ QueueDrained
    /\ workers' = [workers EXCEPT ![w].pc = "exited"]
    /\ poolWg' = poolWg - 1
    /\ UNCHANGED <<workerCount, queueSize, newResult, taskQueue, tqClosed,
                   resultChan, rcClosed, ctl, runCalls, sdCalls, sdReturned,
                   ppc, addTask, added, addAfterSd, addResult, execCount,
                   execErr, printed, consumed, panicked>>
    /\ UNCHANGED rvars
    /\ UNCHANGED <<runsAtSd, svars, evars>>

\* What the worker does with an error of Execute: fmt.Printf only.
OnExecuteError(t) ==
    /\ printed' = Append(printed, t)
    /\ UNCHANGED resultChan

\* result, err := task.Execute(); if err != nil { fmt.Printf(...) } else ...
WorkerExecute(w, ok) ==
    /\ Alive
    /\ w \in 1..Len(workers)
    /\ workers[w].pc = "exec"
    /\ IF ok
       THEN /\ workers' = [workers EXCEPT ![w].pc = "send"]
            /\ UNCHANGED <<execErr, printed, resultChan>>
       ELSE /\ workers' = [workers EXCEPT ![w].pc = "recv", ![w].task = 0]
            /\ execErr' = execErr \cup {workers[w].task}
            /\ OnExecuteError(workers[w].task)
    /\ UNCHANGED <<workerCount, queueSize, newResult, taskQueue, tqClosed,
                   rcClosed, poolWg, ctl, runCalls, sdCalls, sdReturned, ppc,
                   addTask, added, addAfterSd, addResult, execCount, consumed,
                   panicked>>
    /\ UNCHANGED rvars
    /\ UNCHANGED <<runsAtSd, svars, evars>>

\* resultChan: make(chan interface{}, queueSize)
ResultCap_OneLess == queueSize - 1
ResultCap == queueSize

\* wp.resultChan <- result
WorkerSend(w) ==
    /\ Alive
    /\ w \in 1..Len(workers)
    /\ workers[w].pc = "send"
    /\ IF rcClosed
       THEN /\ panicked' = "send on closed channel"
            /\ UNCHANGED <<resultChan, workers>>
       ELSE /\ Len(resultChan) < ResultCap
            /\ resultChan' = Append(resultChan, workers[w].task)
            /\ workers' = [workers EXCEPT ![w].pc = "recv", ![w].task = 0]
            /\ panicked' = panicked
    /\ UNCHANGED <<workerCount, queueSize, newResult, taskQueue, tqClosed,
                   rcClosed, poolWg, ctl, runCalls, sdCalls, sdReturned, ppc,
                   addTask, added, addAfterSd, addResult, execCount, execErr,
                   printed, consumed>>
    /\ UNCHANGED rvars
    /\ UNCHANGED <<runsAtSd, svars, evars>>

\* A receive from Results(): the next buffered value, or, with an empty
\* buffer, the value of a worker blocked in its send.
ReadResult ==
    /\ Alive
    /\ newResult = "pool"
    /\ \/ /\ resultChan # <<>>
          /\ consumed' = Append(consumed, Head(resultChan))
          /\ resultChan' = Tail(resultChan)
          /\ UNCHANGED workers
       \/ /\ resultChan = <<>>
          /\ ~rcClosed
          /\ \E w \in 1..Len(workers) :
                /\ workers[w].pc = "send"
                /\ consumed' = Append(consumed, workers[w].task)
                /\ workers' = [workers EXCEPT ![w].pc = "recv", ![w].task = 0]
          /\ UNCHANGED resultChan
    /\ UNCHANGED <<workerCount, queueSize, newResult, taskQueue, tqClosed,
                   rcClosed, poolWg, ctl, runCalls, sdCalls, sdReturned, ppc,
                   addTask, added, addAfterSd, addResult, execCount, execErr,
                   printed, panicked>>
    /\ UNCHANGED rvars
    /\ UNCHANGED <<runsAtSd, svars, evars>>

WorkerIds == 1..MaxLiveWorkers

PoolNext ==
    \/ \E wc \in -1..MaxWorkers, qs \in -1..MaxQueue : NewWorkerPool(wc, qs)
    \/ PoolRun
    \/ AddTaskCall
    \/ AddTaskSend
    \/ ShutdownCall
    \/ ShutdownWait
    \/ ShutdownClose
    \/ \E w \in WorkerIds : WorkerRecv(w)
    \/ \E w \in WorkerIds : WorkerExit(w)
    \/ \E w \in WorkerIds, ok \in BOOLEAN : WorkerExecute(w, ok)
    \/ \E w \in WorkerIds : WorkerSend(w)
    \/ ReadResult


\* ------------------------------------------------------ RodScraper.Scrape
ScrapeCalls == 1..MaxScrapeCalls

\* r.Tasks.Selectors: a map from keys to selectors, "" or a CSS selector
SelectorMaps == UNION {[1..n -> {"empty", "css"}] : n \in 0..MaxSelectors}

ScrapeInit ==
    /\ selectors \in [ScrapeCalls -> SelectorMaps]
    /\ scr = [i \in ScrapeCalls |->
                [pc |-> "idle",      \* position in Scrape
                 page |-> "none",    \* the page of r.Browser.MustPage()
                 todo |-> {},        \* keys the range loop has not visited
                 cur |-> 0,          \* key of the current iteration
                 vals |-> <<>>,      \* keys stored in results so far
                 out |-> "none",     \* what Scrape returned
                 late |-> {}]]       \* steps done with ctx already cancelled

NoBrowserPanic == \A i \in ScrapeCalls : scr[i].out # "panic"

\* A step of Scrape performed at this moment: recorded when ctx is done.
Late(i, step) == IF ctxDone THEN scr[i].late \cup {step} ELSE scr[i].late

\* Scrape is entered: r.Logger.Info("Starting scraping", ...)
ScrapeCall(i) ==
    /\ NoBrowserPanic
    /\ scr[i].pc = "idle"
    /\ scr' = [scr EXCEPT ![i].pc = "page"]
    /\ UNCHANGED <<rvars, pvars, selectors, evars>>

\* page := r.Browser.MustPage(): panics when the page cannot be created
MustPage(i, ok) ==
    /\ NoBrowserPanic
    /\ scr[i].pc = "page"
    /\ IF ok
       THEN scr' = [scr EXCEPT ![i].pc = "navigate", ![i].page = "open",
                               ![i].late = Late(i, "page")]
       ELSE scr' = [scr EXCEPT ![i].pc = "returned", ![i].out = "panic",
                               ![i].late = Late(i, "page")]
    /\ UNCHANGED <<rvars, pvars, selectors, evars>>

\* err := page.Navigate(r.Tasks.URL); if err != nil { return nil, ... }
Navigate(i, ok) ==
    /\ NoBrowserPanic
    /\ scr[i].pc = "navigate"
    /\ IF ok
       THEN scr' = [scr EXCEPT ![i].pc = "loop",
                               ![i].todo = DOMAIN selectors[i],
                               ![i].late = Late(i, "navigate")]
       ELSE scr' = [scr EXCEPT ![i].pc = "returned", ![i].out = "error",
                               ![i].late = Late(i, "navigate")]
    /\ UNCHANGED <<rvars, pvars, selectors, evars>>

\* results[key] = value, and the iteration of the range loop is over
Store(i, k, v) ==
    [scr EXCEPT ![i].pc = "loop",
                ![i].todo = scr[i].todo \ {k},
                ![i].cur = 0,
                ![i].vals = [j \in DOMAIN scr[i].vals \cup {k} |->
                               IF j = k THEN v ELSE scr[i].vals[j]]]

\* for key, selector := range r.Tasks.Selectors (any order);
\* if selector == "" { results[key] = ""; continue }
NextSelector(i, k) ==
    /\ NoBrowserPanic
    /\ scr[i].pc = "loop"
    /\ k \in scr[i].todo
    /\ IF selectors[i][k] = "empty"
       THEN scr' = Store(i, k, "blank")
       ELSE scr' = [scr EXCEPT ![i].pc = "element", ![i].cur = k]
    /\ UNCHANGED <<rvars, pvars, selectors, evars>>

\* element, err := page.Timeout(10s).Element(selector);
\* if err != nil { Warn; results[key] = ""; continue }
Element(i, ok) ==
    /\ NoBrowserPanic
    /\ scr[i].pc = "element"
    /\ IF ok
       THEN scr' = [scr EXCEPT ![i].pc = "text",
                               ![i].late = Late(i, "element")]
       ELSE scr' = [Store(i, scr[i].cur, "blank") EXCEPT
                               ![i].late = Late(i, "element")]
    /\ UNCHANGED <<rvars, pvars, selectors, evars>>

\* text, err := element.Text(); if err != nil { return nil, ... };
\* results[key] = text
Text(i, ok) ==
    /\ NoBrowserPanic
    /\ scr[i].pc = "text"
    /\ IF ok
       THEN scr' = [Store(i, scr[i].cur, "text") EXCEPT
                               ![i].late = Late(i, "text")]
       ELSE scr' = [scr EXCEPT ![i].pc = "returned", ![i].out = "error",
                               ![i].late = Late(i, "text")]
    /\ UNCHANGED <<rvars, pvars, selectors, evars>>

\* return results, nil
ScrapeDone(i) ==
    /\ NoBrowserPanic
    /\ scr[i].pc = "loop"
    /\ scr[i].todo = {}
    /\ scr' = [scr EXCEPT ![i].pc = "returned", ![i].out = "ok"]
    /\ UNCHANGED <<rvars, pvars, selectors, evars>>

ScrapeNext ==
    \/ \E i \in ScrapeCalls : ScrapeCall(i)
    \/ \E i \in ScrapeCalls, ok \in BOOLEAN : MustPage(i, ok)
    \/ \E i \in ScrapeCalls, ok \in BOOLEAN : Navigate(i, ok)
    \/ \E i \in ScrapeCalls, k \in 1..MaxSelectors : NextSelector(i, k)
    \/ \E i \in ScrapeCalls, ok \in BOOLEAN : Element(i, ok)
    \/ \E i \in ScrapeCalls, ok \in BOOLEAN : Text(i, ok)
    \/ \E i \in ScrapeCalls : ScrapeDone(i)
    \/ Deadline

\* ----------------------------------------------------- CSVExporter.Export
ExportVals == {"a", "b"}

\* []map[string]string whose records all have the key set 1..n
ExportData ==
    UNION {UNION {[1..m -> [1..n -> ExportVals]] : m \in 0..MaxRecords} :
             n \in 1..MaxKeys}

\* The orders in which one `range` over a map with key set K can visit it:
\* the iteration order of a Go map is unspecified and differs from one
\* range statement to the next.
RangeOrders(K) ==
    {f \in [1..Cardinality(K) -> K] :
        \A a, b \in 1..Cardinality(K) : a # b => f[a] # f[b]}

\* No Export call is made.
NoExport ==
    /\ data = <<>>
    /\ epc = "none"
    /\ csvHeader = <<>>
    /\ csvRows = <<>>

ExportInit ==
    /\ data \in ExportData
    /\ epc = "create"
    /\ csvHeader = <<>>
    /\ csvRows = <<>>

\* file, err := os.Create(e.FileName); if err != nil { return ... }
CreateFile(ok) ==
    /\ epc = "create"
    /\ epc' = IF ok THEN "header" ELSE "failed"
    /\ UNCHANGED <<data, csvHeader, csvRows>>
    /\ UNCHANGED <<rvars, pvars, svars>>

\* if len(data) > 0 { for key := range data[0] { headers = append(...) };
\* writer.Write(headers) }
WriteHeader(order, ok) ==
    /\ epc = "header"
    /\ Len(data) > 0
    /\ order \in RangeOrders(DOMAIN data[1])
    /\ IF ok
       THEN /\ csvHeader' = order
            /\ epc' = "rows"
       ELSE /\ csvHeader' = csvHeader
            /\ epc' = "failed"
    /\ UNCHANGED <<data, csvRows>>
    /\ UNCHANGED <<rvars, pvars, svars>>

\* len(data) == 0: no header is written
SkipHeader ==
    /\ epc = "header"
    /\ Len(data) = 0
    /\ epc' = "rows"
    /\ UNCHANGED <<data, csvHeader, csvRows>>
    /\ UNCHANGED <<rvars, pvars, svars>>

\* The row built by `for _, value := range record { row = append(...) }`
RowOf(record, order) == [i \in 1..Len(order) |-> record[order[i]]]

\* for _, record := range data { ...; writer.Write(row) }: one iteration.
\* encoding/csv quotes the fields that need it, so each Write adds one
\* record with these fields to the file.
WriteRow(order, ok) ==
    /\ epc = "rows"
    /\ Len(csvRows) < Len(data)
    /\ order \in RangeOrders(DOMAIN data[Len(csvRows) + 1])
    /\ IF ok
       THEN /\ csvRows' = Append(csvRows, RowOf(data[Len(csvRows) + 1], order))
            /\ epc' = epc
       ELSE /\ csvRows' = csvRows
            /\ epc' = "failed"
    /\ UNCHANGED <<data, csvHeader>>
    /\ UNCHANGED <<rvars, pvars, svars>>

\* return nil
ExportReturn ==
    /\ epc = "rows"
    /\ Len(csvRows) = Len(data)
    /\ epc' = "done"
    /\ UNCHANGED <<data, csvHeader, csvRows>>
    /\ UNCHANGED <<rvars, pvars, svars>>

ExportNext ==
    \/ \E ok \in BOOLEAN : CreateFile(ok)
    \/ \E order \in UNION {RangeOrders(1..n) : n \in 1..MaxKeys},
          ok \in BOOLEAN : WriteHeader(order, ok)
    \/ SkipHeader
    \/ \E order \in UNION {RangeOrders(1..n) : n \in 1..MaxKeys},
          ok \in BOOLEAN : WriteRow(order, ok)
    \/ ExportReturn

\* No RodScraper.Scrape call is modelled step by step.
NoScrape ==
    /\ selectors = <<>>
    /\ scr = <<>>

Init == RunInit /\ PoolInit /\ NoScrape /\ NoExport

RunNext ==
    \/ LaunchTask
    \/ LaunchCloser
    \/ \E i \in Tasks, ok \in BOOLEAN : ScrapeReturn(i, ok)
    \/ \E i \in Tasks : TaskDone(i)
    \/ CloserWait
    \/ CloserCloseRes
    \/ CloserCloseErr
    \/ Deadline
    \/ RunStep

Next == RunNext

Spec == Init /\ [][Next]_vars

\* The pool alone: TaskRunner.Run is not called.
PoolOnlyInit ==
    /\ PoolInit
    /\ nScrapers = 0
    /\ launched = 0
    /\ tpc = [i \in Tasks |-> "none"]
    /\ scrapeOK = [i \in Tasks |-> "none"]
    /\ wgCount = 0
    /\ cpc = "none"
    /\ resClosed = FALSE
    /\ errClosed = FALSE
    /\ resNil = FALSE
    /\ errNil = FALSE
    /\ results = <<>>
    /\ errorList = <<>>
    /\ rpc = "none"
    /\ retVia = "none"
    /\ ctxDone = FALSE
    /\ dlReturned = {}
    /\ NoScrape
    /\ NoExport

PoolStep == PoolNext

PoolSpec == PoolOnlyInit /\ [][PoolStep]_vars

\* Scrape calls alone, under a context that may be cancelled at any time.
ScrapeOnlyInit ==
    /\ ScrapeInit
    /\ NoExport
    /\ PoolInit
    /\ nScrapers = 0
    /\ launched = 0
    /\ tpc = [i \in Tasks |-> "none"]
    /\ scrapeOK = [i \in Tasks |-> "none"]
    /\ wgCount = 0
    /\ cpc = "none"
    /\ resClosed = FALSE
    /\ errClosed = FALSE
    /\ resNil = FALSE
    /\ errNil = FALSE
    /\ results = <<>>
    /\ errorList = <<>>
    /\ rpc = "none"
    /\ retVia = "none"
    /\ ctxDone = FALSE
    /\ dlReturned = {}

ScrapeSpec == ScrapeOnlyInit /\ [][ScrapeNext]_vars

\* One CSVExporter.Export call alone.
ExportOnlyInit ==
    /\ ExportInit
    /\ NoScrape
    /\ PoolInit
    /\ nScrapers = 0
    /\ launched = 0
    /\ tpc = [i \in Tasks |-> "none"]
    /\ scrapeOK = [i \in Tasks |-> "none"]
    /\ wgCount = 0
    /\ cpc = "none"
    /\ resClosed = FALSE
    /\ errClosed = FALSE
    /\ resNil = FALSE
    /\ errNil = FALSE
    /\ results = <<>>
    /\ errorList = <<>>
    /\ rpc = "none"
    /\ retVia = "none"
    /\ ctxDone = FALSE
    /\ dlReturned = {}

ExportSpec == ExportOnlyInit /\ [][ExportNext]_vars

\* Fairness of the Go scheduler: a goroutine that can take a step is
\* eventually run.  Scrape itself and the deadline are the environment's.
SchedFair ==
    /\ WF_vars(LaunchTask)
    /\ WF_vars(LaunchCloser)
    /\ WF_vars(RunStep)
    /\ \A i \in Tasks : WF_vars(TaskDone(i))
    /\ WF_vars(CloserWait)
    /\ WF_vars(CloserCloseRes)
    /\ WF_vars(CloserCloseErr)

FairSpec == Spec /\ SchedFair

\* FairSpec plus the hypothesis that every Scrape call returns.
FairScrapeSpec ==
    /\ Spec
    /\ SchedFair
    /\ \A i \in Tasks : WF_vars(\E ok \in BOOLEAN : ScrapeReturn(i, ok))

\* ------------------------------------------------------------ properties
Count(s, x) == Cardinality({k \in 1..Len(s) : s[k] = x})

Started == 1..nScrapers

\* C1: when Run returns through the final return (both channels closed, the
\* deadline branch not taken), len(results) + len(errors) = N and every task
\* has exactly one entry in exactly one of the two sequences.
C1_AllTasksAccounted ==
    retVia = "closed" =>
        /\ Len(results) + Len(errorList) = nScrapers
        /\ \A i \in Started :
               Count(results, i) + Count(errorList, TaskErr(i)) = 1

C1_Witness ==
    /\ retVia = "closed"
    /\ nScrapers >= 2
    /\ Len(results) >= 1
    /\ Len(errorList) >= 1

\* C2: a return through the deadline branch leaves exactly one timeout
\* error in the error sequence, as its last element; a return through the
\* closed-channels exit leaves none.
C2_OneTimeoutErrorLast ==
    /\ retVia = "deadline" =>
           /\ Len(errorList) >= 1
           /\ errorList[Len(errorList)] = TimeoutErr
           /\ Count(errorList, TimeoutErr) = 1
    /\ retVia = "closed" => Count(errorList, TimeoutErr) = 0

C2_Witness ==
    /\ retVia = "deadline"
    /\ Len(errorList) >= 2
    /\ Len(results) >= 1

\* C3: once Run has returned through the deadline branch, every task
\* goroutine and the closing goroutine eventually exit (every Scrape call
\* returns: FairScrapeSpec).
C3_GoroutinesExitAfterDeadline ==
    (retVia = "deadline") ~>
        (/\ \A i \in Started : tpc[i] = "exited"
         /\ cpc = "exited")

\* C4: Run returns through the final return only when both channels are
\* closed and through the deadline branch only when the context is done;
\* and once every Scrape has returned, or the deadline has fired, Run
\* eventually returns.
C4_ReturnsWhenExhaustedOrDeadline ==
    /\ [](/\ retVia = "closed" => (resClosed /\ errClosed)
          /\ retVia = "deadline" => ctxDone
          /\ rpc = "returned" <=> retVia # "none")
    /\ ((launched = nScrapers /\ \A i \in Started : tpc[i] # "scrape")
            ~> (rpc = "returned"))
    /\ (ctxDone ~> (rpc = "returned"))

C4_Witness ==
    /\ rpc = "returned"
    /\ retVia = "closed"
    /\ ~ctxDone
    /\ nScrapers >= 2

\* C5: a task whose Scrape failed never has an entry in results and has at
\* most one in the errors; when Run returns through the final return, each
\* failed task has exactly one error entry and each succeeded task has its
\* outcome in results exactly once.
C5_FailedTaskOneErrorOthersKept ==
    \A i \in Started :
        /\ scrapeOK[i] = "fail" =>
               /\ Count(results, i) = 0
               /\ Count(errorList, TaskErr(i)) <= 1
        /\ (retVia = "closed" /\ scrapeOK[i] = "fail") =>
               Count(errorList, TaskErr(i)) = 1
        /\ (retVia = "closed" /\ scrapeOK[i] = "ok") =>
               /\ Count(results, i) = 1
               /\ Count(errorList, TaskErr(i)) = 0

C5_Witness ==
    /\ retVia = "closed"
    /\ \E i, j \in Started : scrapeOK[i] = "fail" /\ scrapeOK[j] = "ok"

\* What a caller of the pool can read: the values buffered in Results()
\* and the values already received from it.
PoolOutput ==
    {resultChan[k] : k \in 1..Len(resultChan)}
        \cup {consumed[k] : k \in 1..Len(consumed)}

ErrValue(t) == [kind |-> "error", task |-> t]

\* A pool built from arguments the constructor is meant to accept.
ValidPool == newResult = "pool" /\ workerCount >= 1 /\ queueSize >= 1

\* C6: once a worker of a pool has dealt with a task whose Execute returned
\* an error, that error is in an output of the pool the caller can read, and
\* the worker has not exited (it is back at the queue).
C6_ExecuteErrorForwarded ==
    ValidPool =>
        \A t \in execErr :
            /\ ErrValue(t) \in PoolOutput
            /\ \A w \in 1..Len(workers) :
                   workers[w].task = t => workers[w].pc # "exited"

\* C7: an AddTask call that began after Shutdown had returned ends with a
\* PoolClosed error: it neither enqueues the task nor panics.
C7_AddTaskAfterShutdownFails ==
    (ValidPool /\ addAfterSd /\ addResult # "pending") =>
        addResult = "PoolClosed"

\* C8: a second call of Shutdown causes no panic (no channel is closed
\* twice) and leaves both channels closed as the first call left them.
C8_ShutdownIdempotent ==
    (ValidPool /\ sdCalls >= 2) =>
        /\ panicked = "none"
        /\ tqClosed
        /\ rcClosed

\* C9: however often Run has been called, the workers launched in total
\* number workerCount.
C9_RunLaunchesWorkerCountOnce ==
    (ValidPool /\ runCalls >= 1) => Len(workers) = workerCount

\* C10: NewWorkerPool with workerCount <= 0 or queueSize <= 0 fails with
\* InvalidConfiguration and yields no pool.
C10_NewRejectsNonPositive ==
    (newResult # "none" /\ (workerCount <= 0 \/ queueSize <= 0)) =>
        newResult = "InvalidConfiguration"

\* A worker's `wp.resultChan <- result` hit a closed channel.
WorkerSentOnClosed ==
    panicked = "send on closed channel" /\ addResult # "panic"

AllWorkersExited == \A w \in 1..Len(workers) : workers[w].pc = "exited"

\* C11: Shutdown closes the result channel only when the task queue is
\* already closed and every launched worker has exited, and it returns only
\* with the result channel closed; on a pool whose Run was called before
\* Shutdown, no worker ever sends on the closed result channel.
C11_ShutdownOrder ==
    /\ [][(rcClosed' /\ ~rcClosed) => (tqClosed /\ AllWorkersExited)]_vars
    /\ [][(sdReturned' > sdReturned) => rcClosed']_vars
    /\ [](runsAtSd >= 1 => ~WorkerSentOnClosed)

C11_Witness ==
    /\ ValidPool
    /\ runsAtSd >= 1
    /\ sdReturned >= 1
    /\ Len(resultChan) + Len(consumed) >= 1
    /\ Len(workers) >= 2

\* The run with zero tasks: TaskRunner.Run on an empty scraper list, and a
\* WorkerPool to which no task is ever added.
ZeroTaskInit ==
    /\ RunInit
    /\ nScrapers = 0
    /\ PoolInit
    /\ NoScrape
    /\ NoExport

ZeroTaskNext ==
    \/ LaunchCloser
    \/ CloserWait
    \/ CloserCloseRes
    \/ CloserCloseErr
    \/ Deadline
    \/ RecvResultClosed
    \/ RecvErrorClosed
    \/ DeadlineBranch
    \/ \E wc \in -1..MaxWorkers, qs \in -1..MaxQueue : NewWorkerPool(wc, qs)
    \/ PoolRun
    \/ ShutdownCall
    \/ ShutdownWait
    \/ ShutdownClose
    \/ \E w \in WorkerIds : WorkerExit(w)

\* The goroutines of Run, the workers and a Shutdown call in progress are
\* eventually scheduled.
ZeroTaskSpec ==
    /\ ZeroTaskInit
    /\ [][ZeroTaskNext]_vars
    /\ WF_vars(LaunchCloser)
    /\ WF_vars(CloserWait)
    /\ WF_vars(CloserCloseRes)
    /\ WF_vars(CloserCloseErr)
    /\ WF_vars(RecvResultClosed \/ RecvErrorClosed \/ DeadlineBranch)
    /\ WF_vars(ShutdownWait)
    /\ WF_vars(ShutdownClose)
    /\ \A w \in WorkerIds : WF_vars(WorkerExit(w))

\* C12: with zero tasks, Run returns; when it returns with the deadline
\* unexpired both sequences are empty and the closing goroutine has exited;
\* and a Shutdown called after Run on a pool without tasks returns, with
\* every worker exited and Results() closed and empty.
C12_ZeroTasks ==
    /\ <>(rpc = "returned")
    /\ []((rpc = "returned" /\ (~ctxDone \/ retVia = "closed")) =>
            /\ retVia = "closed"
            /\ results = <<>>
            /\ errorList = <<>>
            /\ cpc = "exited")
    /\ []((ctl = "sdWait") => <>(sdReturned >= 1))
    /\ [][(sdReturned' > sdReturned /\ runsAtSd >= 1) =>
            /\ AllWorkersExited'
            /\ rcClosed'
            /\ resultChan' = <<>>
            /\ consumed' = <<>>]_vars

C12_Witness ==
    /\ rpc = "returned"
    /\ ~ctxDone
    /\ workerCount >= 1
    /\ runsAtSd >= 1
    /\ sdReturned >= 1
    /\ Len(workers) >= 1

\* The deadline fired while no task's Scrape had returned yet.
FiredBeforeAnyReturn == ctxDone /\ dlReturned = {}

\* C13: when the deadline fired before any task's Scrape had returned, Run
\* returns through the deadline branch (it does not wait for the tasks) and
\* its error sequence holds at least one timeout or cancellation error.
\* Every task error of such a run was produced after the deadline, so any
\* entry of the error sequence is counted.
C13_EarlyDeadlineYieldsTimeout ==
    (nScrapers >= 1 /\ FiredBeforeAnyReturn /\ rpc = "returned") =>
        /\ retVia = "deadline"
        /\ errorList # <<>>

\* C14: three tasks; A (1) succeeded and B (2) failed before the deadline
\* fired, C (3) was still in Scrape then and succeeds if it returns.  Run
\* returns through the deadline branch with A's outcome and not C's in the
\* results, and with B's failure and exactly one timeout error in the
\* errors.
ScenarioABC ==
    /\ nScrapers = 3
    /\ ctxDone
    /\ dlReturned = {1, 2}
    /\ scrapeOK[1] = "ok"
    /\ scrapeOK[2] = "fail"
    /\ scrapeOK[3] \in {"none", "ok"}

C14_ScenarioABC ==
    (ScenarioABC /\ rpc = "returned") =>
        /\ retVia = "deadline"
        /\ Count(results, 1) = 1
        /\ Count(results, 3) = 0
        /\ Count(errorList, TaskErr(2)) = 1
        /\ Count(errorList, TimeoutErr) = 1

\* The workers whose task.Execute() is running.
Executing == {w \in 1..Len(workers) : workers[w].pc = "exec"}

\* C15: at most workerCount tasks have their Execute running at any time
\* (each worker of the model holds at most one task, by its position).
C15_AtMostWorkerCountExecuting ==
    ValidPool => Cardinality(Executing) <= workerCount

\* The tasks AddTask has accepted (its send completed).
Accepted == {t \in PoolTasks : t <= added /\ t # addTask}

\* C16: Execute is invoked at most once per task; and when Shutdown has
\* returned on a pool with workerCount >= 1 whose Run was called before
\* Shutdown, it has been invoked exactly once for every accepted task.
C16_NoRetryExactlyOnce ==
    /\ \A t \in PoolTasks : execCount[t] <= 1
    /\ \A t \in PoolTasks \ Accepted : execCount[t] = 0
    /\ (newResult = "pool" /\ workerCount >= 1 /\ runsAtSd >= 1
            /\ sdReturned >= 1) =>
           \A t \in Accepted : execCount[t] = 1

C16_Witness ==
    /\ workerCount >= 1
    /\ runsAtSd >= 1
    /\ sdReturned >= 1
    /\ Accepted = PoolTasks
    /\ execErr # {}
    /\ execErr # PoolTasks

\* C17: after Shutdown has returned the pool is not restarted by Run: no
\* Execute is invoked and no send on the result channel is attempted, also
\* when tasks were still buffered in the queue.
C17_SingleUse ==
    [][(ValidPool /\ sdReturned >= 1) =>
          /\ execCount' = execCount
          /\ ~WorkerSentOnClosed']_vars

\* C18: no step of Scrape (creating the page, navigating, an extraction)
\* is performed once the context is cancelled: Scrape returns Cancelled at
\* the checkpoint before it.
C18_ChecksCancellation ==
    \A i \in ScrapeCalls : scr[i].late = {}

\* C19: when Scrape has returned, whatever the return path, the page it
\* created is closed.
C19_PageReleased ==
    \A i \in ScrapeCalls :
        (scr[i].pc = "returned" /\ scr[i].out # "panic") =>
            scr[i].page # "open"

\* C20: when Run has returned through the deadline branch, every task whose
\* Scrape had returned before the deadline fired has its outcome in results
\* or its error in the error sequence.
C20_NoSilentDrop ==
    (rpc = "returned" /\ retVia = "deadline") =>
        \A i \in dlReturned :
            Count(results, i) + Count(errorList, TaskErr(i)) = 1

\* C21: an AddTask call that was entered before Shutdown had returned (so
\* the two calls overlap when Shutdown has begun) does not panic: it either
\* enqueues its task or fails with PoolClosed.
C21_AddTaskOverlapsShutdown ==
    (ValidPool /\ ~addAfterSd) => addResult # "panic"

\* C22: once the deadline has fired, no step of Run appends an outcome to
\* results or a task's error to the error sequence; the only entry that can
\* still be added is the synthetic timeout error of the deadline branch.
C22_NoReceiveAfterDeadline ==
    [][ctxDone =>
         /\ results' = results
         /\ errorList' \in {errorList, Append(errorList, TimeoutErr)}]_vars

\* A task goroutine blocked in its send on one of the two channels.
PendingSend(i) == tpc[i] \in {"sendRes", "sendErr"}

\* C23: a channel is taken out of the select only after it was closed, the
\* channels are closed only after every task goroutine has finished its
\* send, so Run never waits with a channel removed while a task is blocked
\* sending on it; and a pending send is eventually received unless the
\* deadline fires first.
C23_NoStarvedSend ==
    /\ [](/\ resNil => resClosed
          /\ errNil => errClosed
          /\ (resClosed \/ errClosed) =>
                 /\ launched = nScrapers
                 /\ \A i \in Started : tpc[i] = "exited"
          /\ \A i \in Started :
                 /\ tpc[i] = "sendRes" => ~resNil
                 /\ tpc[i] = "sendErr" => ~errNil)
    /\ \A i \in Tasks : PendingSend(i) ~> (~PendingSend(i) \/ ctxDone)

C23_Witness ==
    /\ rpc = "select"
    /\ resNil
    /\ ~errNil
    /\ ~ctxDone
    /\ results # <<>>
    /\ errorList # <<>>

\* The pool used with nobody reading Results() until Shutdown has returned:
\* a pool with workerCount >= 1, Run called before Shutdown, at most
\* queueSize tasks added, all of them before Shutdown is called, and one
\* Shutdown call.
NewPoolWithWorkers ==
    \E wc \in 1..MaxWorkers, qs \in 0..MaxQueue : NewWorkerPool(wc, qs)

RunBeforeShutdown == sdCalls = 0 /\ PoolRun

AddWithinCapacity == sdCalls = 0 /\ added < queueSize /\ AddTaskCall

ShutdownAfterRun ==
    /\ runCalls >= 1
    /\ ppc = "idle"
    /\ sdCalls = 0
    /\ ShutdownCall

ReadAfterShutdown == sdReturned >= 1 /\ ReadResult

LateReaderNext ==
    \/ NewPoolWithWorkers
    \/ RunBeforeShutdown
    \/ AddWithinCapacity
    \/ AddTaskSend
    \/ ShutdownAfterRun
    \/ ShutdownWait
    \/ ShutdownClose
    \/ \E w \in WorkerIds : WorkerRecv(w)
    \/ \E w \in WorkerIds : WorkerExit(w)
    \/ \E w \in WorkerIds, ok \in BOOLEAN : WorkerExecute(w, ok)
    \/ \E w \in WorkerIds : WorkerSend(w)
    \/ ReadAfterShutdown

\* The workers and the Shutdown call in progress are eventually scheduled,
\* and every Execute terminates.
LateReaderSpec ==
    /\ PoolOnlyInit
    /\ [][LateReaderNext]_vars
    /\ WF_vars(AddTaskSend)
    /\ WF_vars(ShutdownWait)
    /\ WF_vars(ShutdownClose)
    /\ \A w \in WorkerIds :
          /\ WF_vars(WorkerRecv(w))
          /\ WF_vars(WorkerExit(w))
          /\ WF_vars(\E ok \in BOOLEAN : WorkerExecute(w, ok))
          /\ WF_vars(WorkerSend(w))

\* C24: with nobody reading Results() before Shutdown has returned, a
\* Shutdown call in progress eventually returns, no worker is ever blocked
\* in its send on the result channel (the buffer never holds more than
\* queueSize results and has room whenever a worker sends), and nothing
\* panics.
C24_ShutdownReturnsWithoutReader ==
    /\ (ctl = "sdWait") ~> (sdReturned >= 1)
    /\ [](/\ Alive
          /\ Len(resultChan) <= queueSize
          /\ \A w \in 1..Len(workers) :
                workers[w].pc = "send" => Len(resultChan) < ResultCap)

C24_Witness ==
    /\ sdReturned >= 1
    /\ consumed = <<>>
    /\ queueSize >= 2
    /\ Len(resultChan) = queueSize
    /\ AllWorkersExited

\* Every task goroutine was launched, has completed its one send (the loop
\* received it) and has run its deferred wg.Done.
AllSent ==
    /\ launched = nScrapers
    /\ \A i \in Started :
          /\ tpc[i] = "exited"
          /\ Count(results, i) + Count(errorList, TaskErr(i)) = 1

\* C25: each of the two channels of Run is closed at most once (a closed
\* channel stays closed and is not closed again), by the closer goroutine
\* at its own close statement, and only when every task goroutine has
\* completed its single send; so no goroutine is left that could send on
\* a closed channel, before or after the deadline.
C25_ClosedOnceAfterAllSends ==
    [][/\ resClosed => resClosed'
       /\ errClosed => errClosed'
       /\ (resClosed' /\ ~resClosed) => (cpc = "closeRes" /\ AllSent)
       /\ (errClosed' /\ ~errClosed) =>
              (cpc = "closeErr" /\ resClosed /\ AllSent)
       /\ (resClosed' \/ errClosed') =>
              (\A i \in Tasks : ~PendingSend(i)' /\ tpc'[i] # "scrape")]_vars

C25_Witness ==
    /\ resClosed
    /\ errClosed
    /\ ctxDone
    /\ retVia = "deadline"
    /\ nScrapers >= 2
    /\ results # <<>>

\* C26: in the file Export writes for records with one key set, the value
\* at column i of the r-th data row is the r-th record's value for the key
\* at column i of the header row.
C26_RowsAlignedWithHeader ==
    \A r \in 1..Len(csvRows) :
        \A i \in 1..Len(csvRows[r]) :
            csvRows[r][i] = data[r][csvHeader[i]]

====
